---------------------------- MODULE Spec2Model ----------------------------
(* The Todo-App backend (FastAPI + Prisma): the authentication routes,    *)
(* the authentication gate and the todo routes, as one state machine.     *)
(* Every request is one action; each action is the whole handler, its     *)
(* dependencies (the gate) included.                                      *)
EXTENDS Integers, Sequences, FiniteSets, TLC

(* ------------------------------ bounds -------------------------------- *)
\* Users ever registered, todos ever created, and the last clock tick.
MaxUsers == 2
MaxTodos == 2
MaxTime == 1
\* Requests that may be in flight at once in the concurrent specifications.
MaxInFlight == 2

(* --------------------------- configuration ----------------------------- *)
\* settings.ACCESS_TOKEN_EXPIRE_MINUTES and settings.REFRESH_TOKEN_EXPIRE_DAYS
\* as lifetimes in clock ticks. Both are read from the environment; the
\* model runs a configuration in which tokens expire within MaxTime.
AccessTTL == 1
RefreshTTL == 2

(* --------------------------- optional values --------------------------- *)
\* Python's None and a present value.
None == <<>>
Some(v) == <<v>>

(* ------------------------------- state --------------------------------- *)
VARIABLES
  users,       \* the User collection: records [id, email, password]
  todos,       \* the Todo collection: records [id, title, completed, dueDate, pinned, userId, createdAt]
  nextUserId,  \* the database's id generator for users (ids are never reused)
  nextTodoId,  \* the database's id generator for todos
  now,         \* the clock read by token issuance, token verification and createdAt
  resp,        \* the last HTTP response, with the operation it answers
  pending      \* the requests between their first and their second persistence call

vars == <<users, todos, nextUserId, nextTodoId, now, resp, pending>>

(* ------------------------------ inputs --------------------------------- *)
UserIds == 1..MaxUsers
TodoIds == 1..MaxTodos
Emails == {"a@x.io", "b@x.io"}
Passwords == {"pw1", "pw2"}
RegisterPasswords == {"pw1"}
Titles == {"buy milk", "call bob"}
DueDates == {"2024-12-31"}
TokenTypes == {"access", "refresh"}
Schemes == {"Bearer", "bearer", "Basic"}

\* A string on the wire where a token is expected: the empty string, or a
\* JWT with its payload (sub is None when the payload has no "sub"), its
\* expiry and whether its signature verifies under SECRET_KEY.
EmptyStr == [kind |-> "empty", sub |-> None, typ |-> "access", exp |-> 0, sig |-> FALSE]
Jwt(sub, typ, exp, sig) == [kind |-> "jwt", sub |-> sub, typ |-> typ, exp |-> exp, sig |-> sig]
Subjects == {None} \cup {Some(u) : u \in UserIds}
Expiries == 1..(MaxTime + RefreshTTL)
\* The tokens a client may present: every validly signed payload, and for
\* each subject and type one token whose signature does not verify.
SignedTokens == {Jwt(s, t, e, TRUE) : s \in Subjects, t \in TokenTypes, e \in Expiries}
ForgedTokens == {Jwt(s, t, MaxTime + RefreshTTL, FALSE) : s \in Subjects, t \in TokenTypes}
WireTokens == SignedTokens \cup ForgedTokens

\* An Authorization header value as str.split() sees it: the number of
\* whitespace-separated parts, the first part and the second part. n = 0 is
\* the empty header value.
Header(n, scheme, cred) == [n |-> n, scheme |-> scheme, cred |-> cred]
HeaderValues ==
  {Header(0, "", EmptyStr), Header(1, "Bearer", EmptyStr)}
    \cup {Header(2, s, t) : s \in Schemes, t \in WireTokens}
    \cup {Header(3, "Bearer", t) : t \in ForgedTokens}

\* What a request carries: its cookies and its Authorization header.
Request(access_cookie, refresh_cookie, authorization) ==
  [cookies |-> [access_token |-> access_cookie, refresh_token |-> refresh_cookie],
   headers |-> [Authorization |-> authorization]]
CookieValues == {None, Some(EmptyStr)} \cup {Some(t) : t \in WireTokens}
MalformedHeaders == {Header(1, "Bearer", EmptyStr), Header(2, "Basic", EmptyStr)}
\* Requests to the protected routes: a cookie alone, a header alone (or
\* beside an empty cookie), and a cookie beside a malformed header.
AccessRequests ==
  {Request(c, None, None) : c \in CookieValues}
    \cup {Request(None, None, Some(h)) : h \in HeaderValues}
    \cup {Request(Some(EmptyStr), None, Some(h)) : h \in HeaderValues}
    \cup {Request(Some(t), None, Some(h)) : t \in WireTokens, h \in MalformedHeaders}
\* Requests to /auth/refresh: only the refresh_token cookie is read.
RefreshRequests == {Request(None, c, None) : c \in CookieValues}

(* ------------------- app/utils (not in the sources) -------------------- *)
\* hash_password / verify_password: a one-way digest, never the plaintext.
hash_password(p) == <<"bcrypt", p>>
verify_password(p, digest) == digest = hash_password(p)

\* create_access_token / create_refresh_token: sign {sub, type, exp = now + ttl}.
create_access_token(data) == Jwt(Some(data.sub), "access", now + AccessTTL, TRUE)
create_refresh_token(data) == Jwt(Some(data.sub), "refresh", now + RefreshTTL, TRUE)

\* verify_token without the check of the expiry.
verify_token_NoExpiry(token, token_type) ==
  IF token.kind = "jwt" /\ token.sig /\ token.typ = token_type
  THEN Some([sub |-> token.sub, type |-> token.typ, exp |-> token.exp])
  ELSE None

\* verify_token(token, token_type): the payload when the signature verifies,
\* the token is not expired and its type is token_type; otherwise None.
verify_token(token, token_type) ==
  IF token.kind = "jwt" /\ token.sig /\ now < token.exp /\ token.typ = token_type
  THEN Some([sub |-> token.sub, type |-> token.typ, exp |-> token.exp])
  ELSE None

(* ------------------- the persistence collaborator ---------------------- *)
user_find_unique_by_email(email) ==
  IF \E u \in users : u.email = email
  THEN Some(CHOOSE u \in users : u.email = email)
  ELSE None

user_find_unique_by_id(id) ==
  IF \E u \in users : u.id = id
  THEN Some(CHOOSE u \in users : u.id = id)
  ELSE None

user_create(data) == [id |-> nextUserId, email |-> data.email, password |-> data.password]

todo_find_unique(id) ==
  IF \E t \in todos : t.id = id
  THEN Some(CHOOSE t \in todos : t.id = id)
  ELSE None

\* find_many(where={"userId": user_id}): the matching documents, in any order.
Orderings(S) ==
  {s \in [1..Cardinality(S) -> S] : \A i, j \in 1..Cardinality(S) : i # j => s[i] # s[j]}
todo_find_many(user_id) == Orderings({t \in todos : t.userId = user_id})

\* create: the database assigns the id and createdAt (@default(now())).
todo_create(data) ==
  [id |-> nextTodoId, title |-> data.title, completed |-> data.completed,
   dueDate |-> data.dueDate, pinned |-> data.pinned, userId |-> data.userId,
   createdAt |-> now]

\* update(where={"id": id}, data): the fields of data replace the stored ones.
todo_update(id, data) ==
  LET old == todo_find_unique(id)[1]
  IN [old EXCEPT !.title = IF "title" \in DOMAIN data THEN data.title ELSE @,
                 !.completed = IF "completed" \in DOMAIN data THEN data.completed ELSE @,
                 !.dueDate = IF "dueDate" \in DOMAIN data THEN data.dueDate ELSE @,
                 !.pinned = IF "pinned" \in DOMAIN data THEN data.pinned ELSE @]

(* ----------------------------- responses ------------------------------- *)
NoBody == [todos |-> <<>>, user |-> None, access_token |-> None, refresh_token |-> None, message |-> ""]

Response(op, status, detail, body, cookies) ==
  [op |-> op, status |-> status, detail |-> detail, wwwAuth |-> FALSE,
   sub |-> None, tid |-> None, body |-> body, cookies |-> cookies]

HTTPException(op, status, detail) == Response(op, status, detail, NoBody, {})

SetCookie(key, value, max_age) == [key |-> key, value |-> Some(value), max_age |-> max_age]
DeleteCookie(key) == [key |-> key, value |-> None, max_age |-> 0]

(* ---------------------- the authentication gate ------------------------ *)
\* str.lower() on the schemes a request may carry.
Lower(s) == IF s = "Bearer" THEN "bearer" ELSE IF s = "Basic" THEN "basic" ELSE s

\* Python truthiness of an optional string: None and "" are falsy.
Truthy(opt) == opt # None /\ opt[1].kind # "empty"

\* get_token_from_cookie_or_header reading the header before the cookie.
get_token_from_cookie_or_header_HeaderFirst(request) ==
  LET cookie == request.cookies.access_token
      authorization == request.headers.Authorization
  IN IF authorization # None /\ authorization[1].n > 0
     THEN IF authorization[1].n # 2
          THEN [ok |-> FALSE, token |-> EmptyStr, detail |-> "Invalid authorization header"]
          ELSE IF Lower(authorization[1].scheme) # "bearer"
          THEN [ok |-> FALSE, token |-> EmptyStr, detail |-> "Invalid authentication scheme"]
          ELSE [ok |-> TRUE, token |-> authorization[1].cred, detail |-> ""]
     ELSE IF Truthy(cookie)
     THEN [ok |-> TRUE, token |-> cookie[1], detail |-> ""]
     ELSE [ok |-> FALSE, token |-> EmptyStr, detail |-> "Could not validate credentials"]

\* get_token_from_cookie_or_header: [ok, token, detail].
get_token_from_cookie_or_header(request) ==
  LET cookie == request.cookies.access_token
      authorization == request.headers.Authorization
  IN IF Truthy(cookie)
     THEN [ok |-> TRUE, token |-> cookie[1], detail |-> ""]
     ELSE IF authorization # None /\ authorization[1].n > 0
     THEN IF authorization[1].n # 2
          THEN [ok |-> FALSE, token |-> EmptyStr, detail |-> "Invalid authorization header"]
          ELSE IF Lower(authorization[1].scheme) # "bearer"
          THEN [ok |-> FALSE, token |-> EmptyStr, detail |-> "Invalid authentication scheme"]
          ELSE [ok |-> TRUE, token |-> authorization[1].cred, detail |-> ""]
     ELSE [ok |-> FALSE, token |-> EmptyStr, detail |-> "Could not validate credentials"]

\* The token type the gate asks verify_token for.
GateTokenType == "access"

\* get_current_user_id naming the failed check when the user is gone.
get_current_user_id_Telling(extracted) ==
  LET payload == verify_token(extracted.token, "access")
      credentials_exception == [ok |-> FALSE, user_id |-> None, detail |-> "Could not validate credentials"]
  IN IF ~extracted.ok
     THEN [ok |-> FALSE, user_id |-> None, detail |-> extracted.detail]
     ELSE IF payload = None
     THEN credentials_exception
     ELSE IF payload[1].sub = None
     THEN credentials_exception
     ELSE IF user_find_unique_by_id(payload[1].sub[1]) = None
     THEN [ok |-> FALSE, user_id |-> None, detail |-> "User not found"]
     ELSE [ok |-> TRUE, user_id |-> payload[1].sub, detail |-> ""]

\* get_current_user_id without the look-up of the user.
get_current_user_id_NoLookup(extracted) ==
  LET payload == verify_token(extracted.token, "access")
      credentials_exception == [ok |-> FALSE, user_id |-> None, detail |-> "Could not validate credentials"]
  IN IF ~extracted.ok
     THEN [ok |-> FALSE, user_id |-> None, detail |-> extracted.detail]
     ELSE IF payload = None
     THEN credentials_exception
     ELSE IF payload[1].sub = None
     THEN credentials_exception
     ELSE [ok |-> TRUE, user_id |-> payload[1].sub, detail |-> ""]

\* get_current_user_id: [ok, user_id, detail]; every failure is a 401 with
\* the header WWW-Authenticate: Bearer. extracted is the result of the
\* dependency get_token_from_cookie_or_header, whose failure ends the request.
get_current_user_id(extracted) ==
  LET payload == verify_token(extracted.token, GateTokenType)
      credentials_exception == [ok |-> FALSE, user_id |-> None, detail |-> "Could not validate credentials"]
  IN IF ~extracted.ok
     THEN [ok |-> FALSE, user_id |-> None, detail |-> extracted.detail]
     ELSE IF payload = None
     THEN credentials_exception
     ELSE IF payload[1].sub = None
     THEN credentials_exception
     ELSE IF user_find_unique_by_id(payload[1].sub[1]) = None
     THEN credentials_exception
     ELSE [ok |-> TRUE, user_id |-> payload[1].sub, detail |-> ""]

\* The gate's 401 as the response of operation op.
Unauthorized(op, detail) == [HTTPException(op, 401, detail) EXCEPT !.wwwAuth = TRUE]

\* The gate on a request: the dependency chain of every todo route.
Gate(request) == get_current_user_id(get_token_from_cookie_or_header(request))

\* The outcomes the gate has over the requests a client can send.
ExtractedTokens == {get_token_from_cookie_or_header(request) : request \in AccessRequests}
GateOutcomes == {get_current_user_id(extracted) : extracted \in ExtractedTokens}

(* ------------------------------ /auth ---------------------------------- *)
\* register without the look-up of the email.
RegisterResult_NoCheck(user_data) ==
  LET hashed_password == hash_password(user_data.password)
      user == user_create([email |-> user_data.email, password |-> hashed_password])
  IN [resp |-> Response("register", 201, "",
                        [NoBody EXCEPT !.user = Some([id |-> user.id, email |-> user.email])], {}),
      users |-> users \cup {user}]

\* register writing the new password hash over the user that has the email.
RegisterResult_Overwrite(user_data) ==
  LET existing_user == user_find_unique_by_email(user_data.email)
      hashed_password == hash_password(user_data.password)
      user == user_create([email |-> user_data.email, password |-> hashed_password])
  IN IF existing_user # None
     THEN [resp |-> Response("register", 201, "",
                             [NoBody EXCEPT !.user = Some([id |-> existing_user[1].id,
                                                           email |-> existing_user[1].email])], {}),
           users |-> (users \ {existing_user[1]})
                       \cup {[existing_user[1] EXCEPT !.password = hashed_password]}]
     ELSE [resp |-> Response("register", 201, "",
                             [NoBody EXCEPT !.user = Some([id |-> user.id, email |-> user.email])], {}),
           users |-> users \cup {user}]

\* POST /auth/register
RegisterResult(user_data) ==
  LET existing_user == user_find_unique_by_email(user_data.email)
      hashed_password == hash_password(user_data.password)
      user == user_create([email |-> user_data.email, password |-> hashed_password])
  IN IF existing_user # None
     THEN [resp |-> HTTPException("register", 400, "Email already registered"), users |-> users]
     ELSE [resp |-> Response("register", 201, "",
                             [NoBody EXCEPT !.user = Some([id |-> user.id, email |-> user.email])], {}),
           users |-> users \cup {user}]

Register ==
  \E email \in Emails, password \in RegisterPasswords :
    \E r \in {RegisterResult([email |-> email, password |-> password])} :
       /\ (r.users # users) => nextUserId <= MaxUsers
       /\ resp' = r.resp
       /\ users' = r.users
       /\ nextUserId' = IF r.users # users THEN nextUserId + 1 ELSE nextUserId
       /\ UNCHANGED <<todos, nextTodoId, now, pending>>

\* login telling an unknown email from a wrong password.
LoginResult_Telling(user_data) ==
  LET user == user_find_unique_by_email(user_data.email)
  IN IF user = None
     THEN HTTPException("login", 401, "User not found")
     ELSE IF ~verify_password(user_data.password, user[1].password)
     THEN HTTPException("login", 401, "Incorrect email or password")
     ELSE LET access_token == create_access_token([sub |-> user[1].id])
              refresh_token == create_refresh_token([sub |-> user[1].id])
          IN Response("login", 200, "",
                      [NoBody EXCEPT !.access_token = Some(access_token),
                                     !.refresh_token = Some(refresh_token)],
                      {SetCookie("access_token", access_token, AccessTTL),
                       SetCookie("refresh_token", refresh_token, RefreshTTL)})

\* login without the check of the password.
LoginResult_NoPassword(user_data) ==
  LET user == user_find_unique_by_email(user_data.email)
  IN IF user = None
     THEN HTTPException("login", 401, "Incorrect email or password")
     ELSE LET access_token == create_access_token([sub |-> user[1].id])
              refresh_token == create_refresh_token([sub |-> user[1].id])
          IN Response("login", 200, "",
                      [NoBody EXCEPT !.access_token = Some(access_token),
                                     !.refresh_token = Some(refresh_token)],
                      {SetCookie("access_token", access_token, AccessTTL),
                       SetCookie("refresh_token", refresh_token, RefreshTTL)})

\* POST /auth/login
LoginResult(user_data) ==
  LET user == user_find_unique_by_email(user_data.email)
  IN IF user = None
     THEN HTTPException("login", 401, "Incorrect email or password")
     ELSE IF ~verify_password(user_data.password, user[1].password)
     THEN HTTPException("login", 401, "Incorrect email or password")
     ELSE LET access_token == create_access_token([sub |-> user[1].id])
              refresh_token == create_refresh_token([sub |-> user[1].id])
          IN Response("login", 200, "",
                      [NoBody EXCEPT !.access_token = Some(access_token),
                                     !.refresh_token = Some(refresh_token)],
                      {SetCookie("access_token", access_token, AccessTTL),
                       SetCookie("refresh_token", refresh_token, RefreshTTL)})

Login ==
  \E email \in Emails, password \in Passwords :
    /\ resp' = LoginResult([email |-> email, password |-> password])
    /\ UNCHANGED <<users, todos, nextUserId, nextTodoId, now, pending>>

\* /auth/refresh asking verify_token for the gate's token type.
RefreshTokenType_Access == "access"

\* The token type /auth/refresh asks verify_token for.
RefreshTokenType == "refresh"

\* refresh_token rotating the refresh token as well.
RefreshResult_Rotating(request) ==
  LET refresh_token == request.cookies.refresh_token
      payload == verify_token(refresh_token[1], "refresh")
      user_id == payload[1].sub
      user == user_find_unique_by_id(user_id[1])
      new_access_token == create_access_token([sub |-> user[1].id])
      new_refresh_token == create_refresh_token([sub |-> user[1].id])
  IN IF refresh_token = None
     THEN HTTPException("refresh", 401, "Refresh token not provided")
     ELSE IF payload = None
     THEN HTTPException("refresh", 401, "Invalid or expired refresh token")
     ELSE IF user_id = None
     THEN HTTPException("refresh", 401, "Invalid token payload")
     ELSE IF user = None
     THEN HTTPException("refresh", 401, "User not found")
     ELSE Response("refresh", 200, "",
                   [NoBody EXCEPT !.access_token = Some(new_access_token),
                                  !.refresh_token = Some(new_refresh_token)],
                   {SetCookie("access_token", new_access_token, AccessTTL),
                    SetCookie("refresh_token", new_refresh_token, RefreshTTL)})

\* POST /auth/refresh
RefreshResult(request) ==
  LET refresh_token == request.cookies.refresh_token
      payload == verify_token(refresh_token[1], RefreshTokenType)
      user_id == payload[1].sub
      user == user_find_unique_by_id(user_id[1])
      new_access_token == create_access_token([sub |-> user[1].id])
  IN IF refresh_token = None
     THEN HTTPException("refresh", 401, "Refresh token not provided")
     ELSE IF payload = None
     THEN HTTPException("refresh", 401, "Invalid or expired refresh token")
     ELSE IF user_id = None
     THEN HTTPException("refresh", 401, "Invalid token payload")
     ELSE IF user = None
     THEN HTTPException("refresh", 401, "User not found")
     ELSE Response("refresh", 200, "",
                   [NoBody EXCEPT !.access_token = Some(new_access_token),
                                  !.refresh_token = refresh_token],
                   {SetCookie("access_token", new_access_token, AccessTTL)})

Refresh ==
  /\ resp' \in {RefreshResult(request) : request \in RefreshRequests}
  /\ UNCHANGED <<users, todos, nextUserId, nextTodoId, now, pending>>

\* logout clearing the access_token cookie only.
LogoutResult_KeepsRefresh ==
  Response("logout", 200, "", [NoBody EXCEPT !.message = "Successfully logged out"],
           {DeleteCookie("access_token")})

\* POST /auth/logout
LogoutResult ==
  Response("logout", 200, "", [NoBody EXCEPT !.message = "Successfully logged out"],
           {DeleteCookie("access_token"), DeleteCookie("refresh_token")})

Logout ==
  /\ resp' = LogoutResult
  /\ UNCHANGED <<users, todos, nextUserId, nextTodoId, now, pending>>

(* ------------------------------ /todos --------------------------------- *)
\* sorted(todos, key=lambda x: x.createdAt, reverse=True): a stable sort,
\* equal keys keep the order they came in.
\* The insertion step of sorted() without reverse=True.
InsertByCreatedAtAsc(x, s) ==
  LET before == {i \in 1..Len(s) : s[i].createdAt <= x.createdAt}
      k == Cardinality(before)
  IN SubSeq(s, 1, k) \o <<x>> \o SubSeq(s, k + 1, Len(s))

InsertByCreatedAtDesc(x, s) ==
  LET before == {i \in 1..Len(s) : s[i].createdAt >= x.createdAt}
      k == Cardinality(before)
  IN SubSeq(s, 1, k) \o <<x>> \o SubSeq(s, k + 1, Len(s))

RECURSIVE sorted_by_createdAt_reverse(_)
sorted_by_createdAt_reverse(s) ==
  IF s = <<>> THEN <<>>
  ELSE InsertByCreatedAtDesc(s[Len(s)], sorted_by_createdAt_reverse(SubSeq(s, 1, Len(s) - 1)))

\* The response of a todo route, with the subject the gate resolved and the
\* path parameter it was called with.
TodoResponse(op, status, detail, user_id, todo_id, list) ==
  [Response(op, status, detail, [NoBody EXCEPT !.todos = list], {})
     EXCEPT !.sub = user_id, !.tid = todo_id]

\* GET /todos; found is what find_many returned.
GetTodosResult(auth, found) ==
  IF ~auth.ok
  THEN Unauthorized("list", auth.detail)
  ELSE TodoResponse("list", 200, "", auth.user_id, None, sorted_by_createdAt_reverse(found))

GetTodos(auth) ==
  \E found \in (IF auth.ok THEN todo_find_many(auth.user_id[1]) ELSE {<<>>}) :
    /\ resp' = GetTodosResult(auth, found)
    /\ UNCHANGED <<users, todos, nextUserId, nextTodoId, now, pending>>

\* The TodoCreate schema: title, completed, dueDate, pinned; any other key
\* of the JSON body is ignored.
TodoCreate(json) ==
  [title |-> json.title, completed |-> json.completed, dueDate |-> json.dueDate, pinned |-> json.pinned]

\* The data create_todo hands to prisma.todo.create.
CreateData(todo_data, user_id) ==
  [title |-> todo_data.title, completed |-> todo_data.completed,
   dueDate |-> todo_data.dueDate, pinned |-> todo_data.pinned, userId |-> user_id]

\* create_todo taking the owner from the body when the body names one.
CreateTodoResult_BodyOwner(auth, json) ==
  LET todo_data == TodoCreate(json)
      owner == IF json.userId # None THEN json.userId[1] ELSE auth.user_id[1]
      todo == todo_create(CreateData(todo_data, owner))
  IN IF ~auth.ok
     THEN [resp |-> Unauthorized("create", auth.detail), todos |-> todos]
     ELSE [resp |-> TodoResponse("create", 201, "", auth.user_id, None, <<todo>>),
           todos |-> todos \cup {todo}]

\* POST /todos
CreateTodoResult(auth, json) ==
  LET todo_data == TodoCreate(json)
      todo == todo_create(CreateData(todo_data, auth.user_id[1]))
  IN IF ~auth.ok
     THEN [resp |-> Unauthorized("create", auth.detail), todos |-> todos]
     ELSE [resp |-> TodoResponse("create", 201, "", auth.user_id, None, <<todo>>),
           todos |-> todos \cup {todo}]

\* JSON bodies of POST /todos: the schema's fields, and a userId the client
\* may add.
CreateBodies ==
  [title : Titles, completed : {FALSE}, dueDate : {None},
   pinned : {FALSE}, userId : {None} \cup {Some(u) : u \in UserIds}]

CreateTodo(auth) ==
  \E json \in (IF auth.ok THEN CreateBodies ELSE {CHOOSE b \in CreateBodies : TRUE}) :
    \E r \in {CreateTodoResult(auth, json)} :
       /\ (r.todos # todos) => nextTodoId <= MaxTodos
       /\ resp' = r.resp
       /\ todos' = r.todos
       /\ nextTodoId' = IF r.todos # todos THEN nextTodoId + 1 ELSE nextTodoId
       /\ UNCHANGED <<users, nextUserId, now, pending>>

\* update_data carrying every field but the title, a field that was not
\* sent as its default.
UpdateData_Defaults(todo_data) ==
  [f \in {g \in {"title", "completed", "dueDate", "pinned"} : g # "title" \/ todo_data[g] # None} |->
     IF f = "dueDate" THEN todo_data[f]
     ELSE IF todo_data[f] = None THEN FALSE ELSE todo_data[f][1]]

\* update_data carrying dueDate whether or not it is None.
UpdateData_DueDateAlways(todo_data) ==
  [f \in {g \in {"title", "completed", "dueDate", "pinned"} : g = "dueDate" \/ todo_data[g] # None} |->
     IF f = "dueDate" THEN todo_data[f] ELSE todo_data[f][1]]

\* update_data: only the fields of the TodoUpdate that are not None.
UpdateData(todo_data) ==
  [f \in {g \in {"title", "completed", "dueDate", "pinned"} : todo_data[g] # None} |->
     IF f = "dueDate" THEN todo_data[f] ELSE todo_data[f][1]]

\* update_todo without its ownership check.
UpdateTodoResult_NoOwnerCheck(auth, todo_id, todo_data) ==
  LET todo == todo_find_unique(todo_id)
      updated_todo == todo_update(todo_id, UpdateData(todo_data))
  IN IF ~auth.ok
     THEN [resp |-> Unauthorized("update", auth.detail), todos |-> todos]
     ELSE IF todo = None
     THEN [resp |-> TodoResponse("update", 404, "Todo not found", auth.user_id, Some(todo_id), <<>>),
           todos |-> todos]
     ELSE [resp |-> TodoResponse("update", 200, "", auth.user_id, Some(todo_id), <<updated_todo>>),
           todos |-> (todos \ {todo[1]}) \cup {updated_todo}]

\* PUT /todos/{todo_id}
UpdateTodoResult(auth, todo_id, todo_data) ==
  LET todo == todo_find_unique(todo_id)
      updated_todo == todo_update(todo_id, UpdateData(todo_data))
  IN IF ~auth.ok
     THEN [resp |-> Unauthorized("update", auth.detail), todos |-> todos]
     ELSE IF todo = None
     THEN [resp |-> TodoResponse("update", 404, "Todo not found", auth.user_id, Some(todo_id), <<>>),
           todos |-> todos]
     ELSE IF todo[1].userId # auth.user_id[1]
     THEN [resp |-> TodoResponse("update", 403, "Not authorized to update this todo",
                                 auth.user_id, Some(todo_id), <<>>),
           todos |-> todos]
     ELSE [resp |-> TodoResponse("update", 200, "", auth.user_id, Some(todo_id), <<updated_todo>>),
           todos |-> (todos \ {todo[1]}) \cup {updated_todo}]

NoUpdate == [title |-> None, completed |-> None, dueDate |-> None, pinned |-> None]
UpdateBodies == {NoUpdate} \cup {[NoUpdate EXCEPT !.title = Some(t)] : t \in Titles}

\* A request the gate refuses never reaches the handler's body, so one path
\* parameter and one body stand for all of them there.
UpdateTodo(auth) ==
  \E todo_id \in (IF auth.ok THEN TodoIds ELSE {1}),
     todo_data \in (IF auth.ok THEN UpdateBodies ELSE {NoUpdate}) :
    \E r \in {UpdateTodoResult(auth, todo_id, todo_data)} :
       /\ resp' = r.resp
       /\ todos' = r.todos
       /\ UNCHANGED <<users, nextUserId, nextTodoId, now, pending>>

\* delete_todo with the gate's failure ignored.
DeleteTodoResult_NoGate(auth, todo_id) ==
  LET todo == todo_find_unique(todo_id)
  IN IF todo = None
     THEN [resp |-> TodoResponse("delete", 404, "Todo not found", auth.user_id, Some(todo_id), <<>>),
           todos |-> todos]
     ELSE IF auth.ok /\ todo[1].userId # auth.user_id[1]
     THEN [resp |-> TodoResponse("delete", 403, "Not authorized to delete this todo",
                                 auth.user_id, Some(todo_id), <<>>),
           todos |-> todos]
     ELSE [resp |-> TodoResponse("delete", 204, "", auth.user_id, Some(todo_id), <<>>),
           todos |-> {t \in todos : t.id # todo_id}]

\* delete_todo with existence and ownership tested in one condition.
DeleteTodoResult_OneCheck(auth, todo_id) ==
  LET todo == todo_find_unique(todo_id)
  IN IF ~auth.ok
     THEN [resp |-> Unauthorized("delete", auth.detail), todos |-> todos]
     ELSE IF todo = None \/ todo[1].userId # auth.user_id[1]
     THEN [resp |-> TodoResponse("delete", 403, "Not authorized to delete this todo",
                                 auth.user_id, Some(todo_id), <<>>),
           todos |-> todos]
     ELSE [resp |-> TodoResponse("delete", 204, "", auth.user_id, Some(todo_id), <<>>),
           todos |-> {t \in todos : t.id # todo_id}]

\* delete_todo deleting by owner instead of by id.
DeleteTodoResult_ByOwner(auth, todo_id) ==
  LET todo == todo_find_unique(todo_id)
  IN IF ~auth.ok
     THEN [resp |-> Unauthorized("delete", auth.detail), todos |-> todos]
     ELSE IF todo = None
     THEN [resp |-> TodoResponse("delete", 404, "Todo not found", auth.user_id, Some(todo_id), <<>>),
           todos |-> todos]
     ELSE IF todo[1].userId # auth.user_id[1]
     THEN [resp |-> TodoResponse("delete", 403, "Not authorized to delete this todo",
                                 auth.user_id, Some(todo_id), <<>>),
           todos |-> todos]
     ELSE [resp |-> TodoResponse("delete", 204, "", auth.user_id, Some(todo_id), <<>>),
           todos |-> {t \in todos : t.userId # auth.user_id[1]}]

\* DELETE /todos/{todo_id}
DeleteTodoResult(auth, todo_id) ==
  LET todo == todo_find_unique(todo_id)
  IN IF ~auth.ok
     THEN [resp |-> Unauthorized("delete", auth.detail), todos |-> todos]
     ELSE IF todo = None
     THEN [resp |-> TodoResponse("delete", 404, "Todo not found", auth.user_id, Some(todo_id), <<>>),
           todos |-> todos]
     ELSE IF todo[1].userId # auth.user_id[1]
     THEN [resp |-> TodoResponse("delete", 403, "Not authorized to delete this todo",
                                 auth.user_id, Some(todo_id), <<>>),
           todos |-> todos]
     ELSE [resp |-> TodoResponse("delete", 204, "", auth.user_id, Some(todo_id), <<>>),
           todos |-> {t \in todos : t.id # todo_id}]

DeleteTodo(auth) ==
  \E todo_id \in (IF auth.ok THEN TodoIds ELSE {1}) :
    \E r \in {DeleteTodoResult(auth, todo_id)} :
       /\ resp' = r.resp
       /\ todos' = r.todos
       /\ UNCHANGED <<users, nextUserId, nextTodoId, now, pending>>

(* --------------------- the handlers, call by call ----------------------- *)
\* register, update_todo and delete_todo each await two persistence calls;
\* other requests run between the two. A request that has made its first
\* call (and passed the checks on its result) waits in pending for its
\* second.
NoUserData == [email |-> "", password |-> ""]
InFlight(op, user_id, todo_id, todo_data, user_data) ==
  [op |-> op, user_id |-> user_id, todo_id |-> todo_id, todo_data |-> todo_data, user_data |-> user_data]

\* The slot a new request takes, and the slots of the requests of an operation.
FreeSlots == {slot \in 1..MaxInFlight : pending[slot] = None}
FirstFree == CHOOSE slot \in FreeSlots : \A other \in FreeSlots : slot <= other
SlotsOf(op) == {slot \in 1..MaxInFlight : pending[slot] # None /\ pending[slot][1].op = op}

\* What the client library does when update or delete names a record that
\* is no longer stored: it returns None, or it raises.
MissingRecordOutcomes == {"none", "raises"}

\* An exception no handler catches, and a return value the response model
\* rejects: FastAPI answers 500.
ServerError(op, user_id, todo_id) ==
  TodoResponse(op, 500, "Internal Server Error", user_id, todo_id, <<>>)

\* The bodies the concurrent update requests carry.
ConcurrentUpdateBodies == {[NoUpdate EXCEPT !.title = Some("call bob")]}

\* update_todo up to its first await: the gate, find_unique and the two checks.
UpdateFetch(auth) ==
  \E todo_id \in (IF auth.ok THEN TodoIds ELSE {1}), todo_data \in ConcurrentUpdateBodies :
    \E r \in {UpdateTodoResult(auth, todo_id, todo_data)} :
       IF r.resp.status = 200
       THEN /\ FreeSlots # {}
            /\ pending' = [pending EXCEPT ![FirstFree] =
                             Some(InFlight("update", auth.user_id[1], todo_id, todo_data, NoUserData))]
            /\ UNCHANGED <<users, todos, nextUserId, nextTodoId, now, resp>>
       ELSE /\ resp' = r.resp
            /\ UNCHANGED <<users, todos, nextUserId, nextTodoId, now, pending>>

\* update_todo from prisma.todo.update to its return.
UpdateWriteResult(request, outcome) ==
  LET updated_todo == todo_update(request.todo_id, UpdateData(request.todo_data))
  IN IF todo_find_unique(request.todo_id) # None
     THEN [resp |-> TodoResponse("update", 200, "", Some(request.user_id), Some(request.todo_id),
                                 <<updated_todo>>),
           todos |-> {t \in todos : t.id # request.todo_id} \cup {updated_todo}]
     ELSE [resp |-> ServerError("update", Some(request.user_id), Some(request.todo_id)),
           todos |-> todos]

UpdateWrite ==
  \E slot \in SlotsOf("update"), outcome \in MissingRecordOutcomes :
    \E r \in {UpdateWriteResult(pending[slot][1], outcome)} :
       /\ resp' = r.resp
       /\ todos' = r.todos
       /\ pending' = [pending EXCEPT ![slot] = None]
       /\ UNCHANGED <<users, nextUserId, nextTodoId, now>>

\* delete_todo up to its first await.
DeleteFetch(auth) ==
  \E todo_id \in (IF auth.ok THEN TodoIds ELSE {1}) :
    \E r \in {DeleteTodoResult(auth, todo_id)} :
       IF r.resp.status = 204
       THEN /\ FreeSlots # {}
            /\ pending' = [pending EXCEPT ![FirstFree] =
                             Some(InFlight("delete", auth.user_id[1], todo_id, NoUpdate, NoUserData))]
            /\ UNCHANGED <<users, todos, nextUserId, nextTodoId, now, resp>>
       ELSE /\ resp' = r.resp
            /\ UNCHANGED <<users, todos, nextUserId, nextTodoId, now, pending>>

\* delete_todo from prisma.todo.delete to its return: the value delete
\* returns is not looked at.
DeleteWriteResult(request, outcome) ==
  IF todo_find_unique(request.todo_id) = None /\ outcome = "raises"
  THEN [resp |-> ServerError("delete", Some(request.user_id), Some(request.todo_id)),
        todos |-> todos]
  ELSE [resp |-> TodoResponse("delete", 204, "", Some(request.user_id), Some(request.todo_id), <<>>),
        todos |-> {t \in todos : t.id # request.todo_id}]

DeleteWrite ==
  \E slot \in SlotsOf("delete"), outcome \in MissingRecordOutcomes :
    \E r \in {DeleteWriteResult(pending[slot][1], outcome)} :
       /\ resp' = r.resp
       /\ todos' = r.todos
       /\ pending' = [pending EXCEPT ![slot] = None]
       /\ UNCHANGED <<users, nextUserId, nextTodoId, now>>

\* register up to its first await: find_unique and the check.
RegisterCheck ==
  \E email \in Emails, password \in RegisterPasswords :
    \E r \in {RegisterResult([email |-> email, password |-> password])} :
       IF r.resp.status = 201
       THEN /\ FreeSlots # {}
            /\ pending' = [pending EXCEPT ![FirstFree] =
                             Some(InFlight("register", 0, 0, NoUpdate,
                                           [email |-> email, password |-> password]))]
            /\ UNCHANGED <<users, todos, nextUserId, nextTodoId, now, resp>>
       ELSE /\ resp' = r.resp
            /\ UNCHANGED <<users, todos, nextUserId, nextTodoId, now, pending>>

\* register from prisma.user.create to its return. The store refuses a
\* second user with an email it holds: create raises, and register catches
\* nothing.
RegisterCreateResult(request) ==
  LET user == user_create([email |-> request.user_data.email,
                           password |-> hash_password(request.user_data.password)])
  IN IF user_find_unique_by_email(request.user_data.email) # None
     THEN [resp |-> Response("register", 500, "Internal Server Error", NoBody, {}), users |-> users]
     ELSE [resp |-> Response("register", 201, "",
                             [NoBody EXCEPT !.user = Some([id |-> user.id, email |-> user.email])], {}),
           users |-> users \cup {user}]

RegisterCreate ==
  \E slot \in SlotsOf("register") :
    \E r \in {RegisterCreateResult(pending[slot][1])} :
       /\ (r.users # users) => nextUserId <= MaxUsers
       /\ resp' = r.resp
       /\ users' = r.users
       /\ nextUserId' = IF r.users # users THEN nextUserId + 1 ELSE nextUserId
       /\ pending' = [pending EXCEPT ![slot] = None]
       /\ UNCHANGED <<todos, nextTodoId, now>>

(* ----------------------- the fields of a todo --------------------------- *)
\* A key of a JSON body: absent, present with null, or present with a value.
JsonAbsent == None
JsonNull == Some(None)
JsonValue(v) == Some(Some(v))
JsonOf(S) == {JsonAbsent, JsonNull} \cup {JsonValue(v) : v \in S}

\* The TodoUpdate schema: every field is Optional with default None, so an
\* absent key and a null both read as None.
TodoFields == {"title", "completed", "dueDate", "pinned"}
TodoUpdate(json) == [f \in TodoFields |-> IF json[f] = JsonAbsent THEN None ELSE json[f][1]]

\* JSON bodies of PUT /todos/{todo_id}.
JsonUpdateBodies ==
  [title : JsonOf(Titles), completed : JsonOf(BOOLEAN), dueDate : JsonOf(DueDates), pinned : JsonOf(BOOLEAN)]
AllAbsent == [title |-> JsonAbsent, completed |-> JsonAbsent, dueDate |-> JsonAbsent, pinned |-> JsonAbsent]
AllNull == [title |-> JsonNull, completed |-> JsonNull, dueDate |-> JsonNull, pinned |-> JsonNull]
\* The bodies sent: nothing but absent keys or nulls, or one value beside them.
JsonUpdateRequests ==
  {AllAbsent, AllNull}
    \cup {[b EXCEPT !.title = JsonValue(v)] : b \in {AllAbsent, AllNull}, v \in Titles}
    \cup {[b EXCEPT !.completed = JsonValue(v)] : b \in {AllAbsent, AllNull}, v \in BOOLEAN}
    \cup {[b EXCEPT !.dueDate = JsonValue(v)] : b \in {AllAbsent, AllNull}, v \in DueDates}
    \cup {[b EXCEPT !.pinned = JsonValue(v)] : b \in {AllAbsent, AllNull}, v \in BOOLEAN}

UpdateTodoFromJson(auth) ==
  \E todo_id \in (IF auth.ok THEN TodoIds ELSE {1}),
     json \in (IF auth.ok THEN JsonUpdateRequests ELSE {AllAbsent}) :
    \E r \in {UpdateTodoResult(auth, todo_id, TodoUpdate(json))} :
       /\ resp' = r.resp
       /\ todos' = r.todos
       /\ UNCHANGED <<users, nextUserId, nextTodoId, now, pending>>

\* JSON bodies of POST /todos with every field given.
FieldCreateBodies ==
  [title : Titles, completed : BOOLEAN, dueDate : {None} \cup {Some(d) : d \in DueDates},
   pinned : BOOLEAN, userId : {None}]

CreateTodoWithFields(auth) ==
  \E json \in (IF auth.ok THEN FieldCreateBodies ELSE {CHOOSE b \in FieldCreateBodies : TRUE}) :
    \E r \in {CreateTodoResult(auth, json)} :
       /\ (r.todos # todos) => nextTodoId <= MaxTodos
       /\ resp' = r.resp
       /\ todos' = r.todos
       /\ nextTodoId' = IF r.todos # todos THEN nextTodoId + 1 ELSE nextTodoId
       /\ UNCHANGED <<users, nextUserId, now, pending>>

(* ------------------------- the due date of a todo ----------------------- *)
\* Due dates an update may carry: the one todos are created with and a later one.
UpdateDueDates == DueDates \cup {"2025-06-30"}

\* JSON bodies of PUT /todos/{todo_id} with every due date.
DueDateUpdateBodies ==
  [title : JsonOf(Titles), completed : JsonOf(BOOLEAN), dueDate : JsonOf(UpdateDueDates), pinned : JsonOf(BOOLEAN)]

\* The bodies sent: a dueDate key that is absent, null or a timestamp, beside
\* a title key that is absent, null or a new title.
DueDateUpdateRequests ==
  {[AllAbsent EXCEPT !.dueDate = d, !.title = t] :
     d \in JsonOf(UpdateDueDates), t \in {JsonAbsent, JsonNull, JsonValue("call bob")}}

UpdateDueDate(auth) ==
  \E todo_id \in (IF auth.ok THEN TodoIds ELSE {1}),
     json \in (IF auth.ok THEN DueDateUpdateRequests ELSE {AllAbsent}) :
    \E r \in {UpdateTodoResult(auth, todo_id, TodoUpdate(json))} :
       /\ resp' = r.resp
       /\ todos' = r.todos
       /\ UNCHANGED <<users, nextUserId, nextTodoId, now, pending>>

\* JSON bodies of POST /todos with and without a due date.
DueDateCreateBodies ==
  {[title |-> "buy milk", completed |-> FALSE, dueDate |-> d, pinned |-> FALSE, userId |-> None] :
     d \in {None} \cup {Some(v) : v \in DueDates}}

CreateTodoWithDueDate(auth) ==
  \E json \in DueDateCreateBodies :
    \E r \in {CreateTodoResult(auth, json)} :
       /\ (r.todos # todos) => nextTodoId <= MaxTodos
       /\ resp' = r.resp
       /\ todos' = r.todos
       /\ nextTodoId' = IF r.todos # todos THEN nextTodoId + 1 ELSE nextTodoId
       /\ UNCHANGED <<users, nextUserId, now, pending>>

(* ---------------------------- environment ------------------------------ *)
\* A user document leaves the collection (no route of the application does
\* this; the gate and /auth/refresh re-check that the user still exists).
\* Ids are never reused.
RemoveUser ==
  \E u \in users :
    /\ users' = users \ {u}
    /\ UNCHANGED <<todos, nextUserId, nextTodoId, now, resp, pending>>

(* ------------------------------- clock --------------------------------- *)
Tick ==
  /\ now < MaxTime
  /\ now' = now + 1
  /\ UNCHANGED <<users, todos, nextUserId, nextTodoId, resp, pending>>

(* --------------------------- specification ----------------------------- *)
Init ==
  /\ users = {}
  /\ todos = {}
  /\ nextUserId = 1
  /\ nextTodoId = 1
  /\ now = 0
  /\ resp = Response("none", 0, "", NoBody, {})
  /\ pending = [slot \in 1..MaxInFlight |-> None]

Next ==
  \/ Register
  \/ Login
  \/ Refresh
  \/ Logout
  \/ \E auth \in GateOutcomes : GetTodos(auth)
  \/ \E auth \in GateOutcomes : CreateTodo(auth)
  \/ \E auth \in GateOutcomes : UpdateTodo(auth)
  \/ \E auth \in GateOutcomes : DeleteTodo(auth)
  \/ Tick

Spec == Init /\ [][Next]_vars

\* The application beside an environment that removes users.
NextWithRemoval ==
  \/ Next
  \/ RemoveUser

SpecWithRemoval == Init /\ [][NextWithRemoval]_vars

\* The todo routes with update and delete taken call by call, beside
\* registration and creation.
NextConcurrentTodos ==
  \/ Register
  \/ \E auth \in GateOutcomes : CreateTodo(auth)
  \/ \E auth \in GateOutcomes : UpdateFetch(auth)
  \/ UpdateWrite
  \/ \E auth \in GateOutcomes : DeleteFetch(auth)
  \/ DeleteWrite

SpecConcurrentTodos == Init /\ [][NextConcurrentTodos]_vars

\* Registration taken call by call, beside login.
NextConcurrentRegister ==
  \/ RegisterCheck
  \/ RegisterCreate
  \/ Login

SpecConcurrentRegister == Init /\ [][NextConcurrentRegister]_vars

\* The todo routes of one registered user, with every field of a todo in play.
InitFields ==
  /\ users = {[id |-> 1, email |-> "a@x.io", password |-> hash_password("pw1")]}
  /\ todos = {}
  /\ nextUserId = 2
  /\ nextTodoId = 1
  /\ now = 0
  /\ resp = Response("none", 0, "", NoBody, {})
  /\ pending = [slot \in 1..MaxInFlight |-> None]

NextFields ==
  \/ \E auth \in GateOutcomes : CreateTodoWithFields(auth)
  \/ \E auth \in GateOutcomes : UpdateTodoFromJson(auth)
  \/ \E auth \in GateOutcomes : DeleteTodo(auth)

SpecFields == InitFields /\ [][NextFields]_vars

\* The todo routes of one registered user, with due dates set and replaced.
NextDueDates ==
  \/ \E auth \in GateOutcomes : CreateTodoWithDueDate(auth)
  \/ \E auth \in GateOutcomes : UpdateDueDate(auth)
  \/ \E auth \in GateOutcomes : DeleteTodo(auth)

SpecDueDates == InitFields /\ [][NextDueDates]_vars

(* ============================== claims ================================= *)
UserIdsOf(S) == {u.id : u \in S}
TodoIdsOf(S) == {t.id : t \in S}
OkOutcomes == {auth \in GateOutcomes : auth.ok}

(* C1: a PUT or DELETE on an existing todo owned by somebody else answers   *)
(* 403 and leaves the todo collection as it was; and in every step, a todo  *)
(* that changes or disappears does so in a successful update or delete of   *)
(* that very todo by the subject that owns it.                               *)
C1_ForeignRefused ==
  \A auth \in OkOutcomes, todo_id \in TodoIds :
    (\E t \in todos : t.id = todo_id /\ t.userId # auth.user_id[1]) =>
      /\ \A todo_data \in UpdateBodies :
           LET r == UpdateTodoResult(auth, todo_id, todo_data)
           IN r.resp.status = 403 /\ r.todos = todos
      /\ LET r == DeleteTodoResult(auth, todo_id)
         IN r.resp.status = 403 /\ r.todos = todos

C1_OnlyOwnerWrites ==
  \A t \in todos :
    t \notin todos' =>
      /\ resp'.op \in {"update", "delete"}
      /\ resp'.status \in {200, 204}
      /\ resp'.tid = Some(t.id)
      /\ resp'.sub = Some(t.userId)

C1_OwnershipEnforced == [](C1_ForeignRefused) /\ [][C1_OnlyOwnerWrites]_vars

\* A user other than the owner has just been refused on an existing todo.
C1_Witness ==
  /\ resp.op \in {"update", "delete"}
  /\ resp.status = 403
  /\ \E t \in todos : resp.tid = Some(t.id) /\ resp.sub # Some(t.userId)
  /\ resp.sub # None /\ resp.sub[1] \in UserIdsOf(users)

(* C2: a todo route touches the todo collection only after the gate has     *)
(* succeeded: when the gate fails the route answers the gate's 401 with an  *)
(* empty body and the collection is unchanged; when it succeeds the gate    *)
(* resolved the subject of a verified access token of an existing user, and *)
(* that id is the one the route filters by, writes as owner and compares    *)
(* with; and every step that changes the collection answers a request the   *)
(* gate let through.                                                         *)
AnyListing == UNION {todo_find_many(u) : u \in UserIds}

C2_GateResolves ==
  \A extracted \in ExtractedTokens :
    LET auth == get_current_user_id(extracted)
    IN auth.ok =>
         /\ extracted.ok
         /\ verify_token(extracted.token, "access") # None
         /\ auth.user_id = extracted.token.sub
         /\ auth.user_id # None /\ auth.user_id[1] \in UserIdsOf(users)

C2_RefusedUntouched ==
  \A auth \in GateOutcomes \ OkOutcomes :
    /\ \A found \in AnyListing : GetTodosResult(auth, found) = Unauthorized("list", auth.detail)
    /\ \A json \in CreateBodies :
         CreateTodoResult(auth, json) = [resp |-> Unauthorized("create", auth.detail), todos |-> todos]
    /\ \A todo_id \in TodoIds :
         /\ \A todo_data \in UpdateBodies :
              UpdateTodoResult(auth, todo_id, todo_data) =
                [resp |-> Unauthorized("update", auth.detail), todos |-> todos]
         /\ DeleteTodoResult(auth, todo_id) = [resp |-> Unauthorized("delete", auth.detail), todos |-> todos]

C2_SubjectIsGates ==
  \A auth \in OkOutcomes :
    /\ \A found \in todo_find_many(auth.user_id[1]) :
         LET r == GetTodosResult(auth, found)
         IN r.sub = auth.user_id /\ \A i \in 1..Len(r.body.todos) : r.body.todos[i].userId = auth.user_id[1]
    /\ \A json \in CreateBodies :
         LET r == CreateTodoResult(auth, json)
         IN r.resp.sub = auth.user_id /\ \A t \in r.todos \ todos : t.userId = auth.user_id[1]
    /\ \A todo_id \in TodoIds :
         /\ \A todo_data \in UpdateBodies :
              LET r == UpdateTodoResult(auth, todo_id, todo_data)
              IN r.resp.sub = auth.user_id
                 /\ (r.todos # todos => \E t \in todos : t.id = todo_id /\ t.userId = auth.user_id[1])
         /\ LET r == DeleteTodoResult(auth, todo_id)
            IN r.resp.sub = auth.user_id
               /\ (r.todos # todos => \E t \in todos : t.id = todo_id /\ t.userId = auth.user_id[1])

C2_WritesAreAuthenticated ==
  todos' # todos =>
    /\ resp'.status \in {200, 201, 204}
    /\ \E auth \in OkOutcomes : resp'.sub = auth.user_id

C2_GateBeforeStore ==
  [](C2_GateResolves /\ C2_RefusedUntouched /\ C2_SubjectIsGates) /\ [][C2_WritesAreAuthenticated]_vars

\* A todo request has just been refused by the gate while todos are stored.
C2_Witness ==
  /\ resp.op \in {"list", "create", "update", "delete"}
  /\ resp.status = 401 /\ resp.wwwAuth
  /\ todos # {}
  /\ \E auth \in GateOutcomes \ OkOutcomes : resp = Unauthorized(resp.op, auth.detail)

(* C3: in update and delete the existence check comes first: for any        *)
(* authenticated caller an id that is not stored answers 404, a stored id   *)
(* owned by another user answers 403, and 403 is never the answer for an id *)
(* that is not stored.                                                       *)
C3_NotFoundBeforeForbidden ==
  \A auth \in OkOutcomes, todo_id \in TodoIds :
    LET d == DeleteTodoResult(auth, todo_id).resp
        stored == \E t \in todos : t.id = todo_id
        foreign == \E t \in todos : t.id = todo_id /\ t.userId # auth.user_id[1]
    IN /\ ~stored => d.status = 404 /\ d.detail = "Todo not found"
       /\ foreign => d.status = 403
       /\ d.status = 403 => stored
       /\ \A todo_data \in UpdateBodies :
            LET u == UpdateTodoResult(auth, todo_id, todo_data).resp
            IN /\ ~stored => u.status = 404 /\ u.detail = "Todo not found"
               /\ foreign => u.status = 403
               /\ u.status = 403 => stored

\* An authenticated caller who owns nothing has just got 404 for an id that
\* is not stored, while a todo of another user is stored.
C3_Witness ==
  /\ resp.op \in {"update", "delete"}
  /\ resp.status = 404
  /\ resp.sub # None /\ resp.tid # None
  /\ resp.tid[1] \notin TodoIdsOf(todos)
  /\ todos # {}
  /\ \A t \in todos : Some(t.userId) # resp.sub

(* C4: GET /todos answers exactly the stored todos whose userId is the      *)
(* subject, each once, ordered by createdAt descending, whatever order      *)
(* find_many returned them in; and a list request changes nothing stored.   *)
C4_ListExactSorted ==
  \A auth \in OkOutcomes :
    \A found \in todo_find_many(auth.user_id[1]) :
      LET list == GetTodosResult(auth, found).body.todos
          own == {t \in todos : t.userId = auth.user_id[1]}
      IN /\ GetTodosResult(auth, found).status = 200
         /\ {list[i] : i \in 1..Len(list)} = own
         /\ Len(list) = Cardinality(own)
         /\ \A i, j \in 1..Len(list) : i < j => list[i].createdAt >= list[j].createdAt

C4_ListReadsOnly ==
  (resp'.op = "list" /\ resp' # resp) => UNCHANGED <<users, todos, nextUserId, nextTodoId, now>>

C4_ListOwnNewestFirst == [](C4_ListExactSorted) /\ [][C4_ListReadsOnly]_vars

\* A list has just answered two todos created at different times.
C4_Witness ==
  /\ resp.op = "list" /\ resp.status = 200
  /\ Len(resp.body.todos) = 2
  /\ resp.body.todos[1].createdAt > resp.body.todos[2].createdAt
  /\ {resp.body.todos[1], resp.body.todos[2]} = {t \in todos : Some(t.userId) = resp.sub}

(* C5: a todo enters the collection only in a create step, with userId the  *)
(* subject the gate resolved for that request, whatever userId the JSON     *)
(* body carries; and no step changes the userId of a stored todo.           *)
C5_CreateForcesOwner ==
  \A auth \in OkOutcomes, json \in CreateBodies :
    LET r == CreateTodoResult(auth, json)
    IN /\ r.resp.status = 201
       /\ Cardinality(r.todos \ todos) = 1
       /\ \A t \in r.todos \ todos : t.userId = auth.user_id[1]
       /\ \A i \in 1..Len(r.resp.body.todos) : r.resp.body.todos[i].userId = auth.user_id[1]

C5_OwnerFixed ==
  \A t \in todos' :
    IF t.id \in TodoIdsOf(todos)
    THEN \A old \in todos : old.id = t.id => old.userId = t.userId
    ELSE resp'.op = "create" /\ resp'.status = 201 /\ resp'.sub = Some(t.userId)

C5_OwnerIsCreator == [](C5_CreateForcesOwner) /\ [][C5_OwnerFixed]_vars

\* A create has just stored a todo; both users exist, so a body could have
\* named the other one.
C5_Witness ==
  /\ resp.op = "create" /\ resp.status = 201
  /\ Cardinality(users) = 2
  /\ \E t \in todos : resp.body.todos = <<t>> /\ Some(t.userId) = resp.sub

(* C6: token types are not interchangeable: an access token whose signature *)
(* verifies and which has not expired, put in the refresh_token cookie,     *)
(* makes /auth/refresh answer 401 with no cookie and no access token; a     *)
(* refresh token whose signature verifies and which has not expired, sent   *)
(* as the access_token cookie or as a Bearer header, makes the gate fail.   *)
AsCookie(t) == Request(Some(t), None, None)
AsBearer(t) == {Request(None, None, Some(Header(2, s, t))) : s \in {"Bearer", "bearer"}}
AsRefreshCookie(t) == Request(None, Some(t), None)

C6_TypesNotInterchangeable ==
  \A t \in SignedTokens :
    now < t.exp =>
      /\ t.typ = "access" =>
           LET r == RefreshResult(AsRefreshCookie(t))
           IN r.status = 401 /\ r.cookies = {} /\ r.body.access_token = None
      /\ t.typ = "refresh" =>
           \A request \in {AsCookie(t)} \cup AsBearer(t) :
             LET auth == Gate(request)
             IN ~auth.ok /\ auth.user_id = None /\ Unauthorized("list", auth.detail).status = 401

\* /auth/refresh has just refused an access token that the gate accepts.
C6_Witness ==
  \E t \in SignedTokens :
    /\ t.typ = "access" /\ now < t.exp
    /\ Gate(AsCookie(t)).ok
    /\ resp = RefreshResult(AsRefreshCookie(t))
    /\ resp.op = "refresh" /\ resp.status = 401

(* C7: a login with an email that has no user and a login with a user's     *)
(* email and a wrong password get the same response: 401, the same detail,  *)
(* no cookie, no token.                                                      *)
LoginInputs == [email : Emails, password : Passwords]
UnknownEmailLogins == {x \in LoginInputs : \A u \in users : u.email # x.email}
WrongPasswordLogins ==
  {x \in LoginInputs : \E u \in users : u.email = x.email /\ u.password # hash_password(x.password)}

C7_LoginFailureUniform ==
  \A x \in UnknownEmailLogins \cup WrongPasswordLogins :
    /\ LoginResult(x).status = 401
    /\ LoginResult(x).cookies = {}
    /\ LoginResult(x).body.access_token = None /\ LoginResult(x).body.refresh_token = None
    /\ \A y \in UnknownEmailLogins \cup WrongPasswordLogins : LoginResult(x) = LoginResult(y)

\* A login has just failed in a state where both ways of failing exist.
C7_Witness ==
  /\ resp.op = "login" /\ resp.status = 401
  /\ UnknownEmailLogins # {}
  /\ WrongPasswordLogins # {}

HeaderRead(request) ==
  /\ request.cookies.access_token \in {None, Some(EmptyStr)}
  /\ request.headers.Authorization # None
  /\ request.headers.Authorization[1].n > 0

\* The extraction, which reads no state: its failures and their details.
C8_ExtractionDetails ==
  \A request \in AccessRequests :
    LET extracted == get_token_from_cookie_or_header(request)
        header == request.headers.Authorization[1]
    IN ~extracted.ok =>
         extracted.detail =
           IF HeaderRead(request) /\ header.n # 2 THEN "Invalid authorization header"
           ELSE IF HeaderRead(request) /\ header.scheme \notin {"Bearer", "bearer"}
           THEN "Invalid authentication scheme"
           ELSE "Could not validate credentials"

C9_AbsentSubjectRefused ==
  \A t \in SignedTokens :
    (now < t.exp /\ t.sub # None /\ t.sub[1] \notin UserIdsOf(users)) =>
      /\ t.typ = "access" =>
           /\ verify_token(t, "access") # None
           /\ \A request \in {AsCookie(t)} \cup AsBearer(t) :
                LET auth == Gate(request)
                IN /\ auth = [ok |-> FALSE, user_id |-> None, detail |-> "Could not validate credentials"]
                   /\ \A found \in AnyListing : GetTodosResult(auth, found).status = 401
                   /\ \A json \in CreateBodies :
                        CreateTodoResult(auth, json).resp.status = 401
                          /\ CreateTodoResult(auth, json).todos = todos
                   /\ \A todo_id \in TodoIds :
                        /\ DeleteTodoResult(auth, todo_id).resp.status = 401
                        /\ DeleteTodoResult(auth, todo_id).todos = todos
                        /\ \A todo_data \in UpdateBodies :
                             UpdateTodoResult(auth, todo_id, todo_data).resp.status = 401
                               /\ UpdateTodoResult(auth, todo_id, todo_data).todos = todos
      /\ t.typ = "refresh" =>
           /\ verify_token(t, "refresh") # None
           /\ RefreshResult(AsRefreshCookie(t)) = HTTPException("refresh", 401, "User not found")

\* A user has left the store and /auth/refresh has just refused a refresh
\* token with that user's id, still unexpired.
C9_Witness ==
  \E t \in SignedTokens :
    /\ t.typ = "refresh" /\ now < t.exp /\ t.exp <= now + RefreshTTL
    /\ t.sub # None /\ t.sub[1] < nextUserId /\ t.sub[1] \notin UserIdsOf(users)
    /\ resp = RefreshResult(AsRefreshCookie(t))
    /\ resp.op = "refresh" /\ resp.detail = "User not found"

(* C10: a successful /auth/refresh issues one access token, signed, of type *)
(* access, with the subject of the refresh token presented and the access   *)
(* lifetime; it sets the access_token cookie and no other, and the body's   *)
(* refresh_token is the token presented; and after a successful refresh the *)
(* same refresh token succeeds again for as long as it has not expired and  *)
(* its user exists.                                                          *)
C10_OnlyAccessIssued ==
  \A request \in RefreshRequests :
    LET r == RefreshResult(request)
        presented == request.cookies.refresh_token
        issued == r.body.access_token[1]
    IN r.status = 200 =>
         /\ presented # None /\ verify_token(presented[1], "refresh") # None
         /\ r.body.access_token # None
         /\ issued = Jwt(presented[1].sub, "access", now + AccessTTL, TRUE)
         /\ r.cookies = {SetCookie("access_token", issued, AccessTTL)}
         /\ \A c \in r.cookies : c.key # "refresh_token"
         /\ r.body.refresh_token = presented

C10_SameTokenAgain ==
  (resp.op = "refresh" /\ resp.status = 200) =>
    LET t == resp.body.refresh_token[1]
        again == RefreshResult(AsRefreshCookie(t))
    IN (now < t.exp /\ t.sub[1] \in UserIdsOf(users)) =>
         /\ again.status = 200
         /\ again.body.refresh_token = Some(t)
         /\ again.body.access_token = Some(Jwt(t.sub, "access", now + AccessTTL, TRUE))

C10_RefreshNeverRotates == C10_OnlyAccessIssued /\ C10_SameTokenAgain

\* A refresh succeeded with a refresh token issued earlier, and time has
\* passed since: the token is still good for another refresh.
C10_Witness ==
  /\ resp.op = "refresh" /\ resp.status = 200
  /\ resp.body.refresh_token # None
  /\ resp.body.access_token[1].exp <= now
  /\ now < resp.body.refresh_token[1].exp
  /\ RefreshResult(AsRefreshCookie(resp.body.refresh_token[1])).status = 200

(* C11: logout is stateless: its response is a 200 whose only cookies are   *)
(* the two deletions of access_token and refresh_token and which carries no *)
(* token; a logout step changes nothing stored and leaves the answer of the *)
(* gate and of /auth/refresh to the tokens of every user as it was; and     *)
(* after a logout every signed token that has not expired, of a user that   *)
(* exists, is accepted as before.                                            *)
C11_OnlyClearsCookies ==
  /\ LogoutResult.status = 200
  /\ LogoutResult.cookies = {DeleteCookie("access_token"), DeleteCookie("refresh_token")}
  /\ \A c \in LogoutResult.cookies : c.value = None /\ c.max_age = 0
  /\ LogoutResult.body.access_token = None /\ LogoutResult.body.refresh_token = None

C11_LogoutChangesNothing ==
  (resp'.op = "logout" /\ resp' # resp) =>
    /\ resp' = LogoutResult
    /\ UNCHANGED <<users, todos, nextUserId, nextTodoId, now>>
    /\ \A u \in users :
         LET access_token == create_access_token([sub |-> u.id])
             refresh_token == create_refresh_token([sub |-> u.id])
         IN /\ Gate(AsCookie(access_token))' = Gate(AsCookie(access_token))
            /\ RefreshResult(AsRefreshCookie(refresh_token))'
                 = RefreshResult(AsRefreshCookie(refresh_token))

C11_StillAccepted ==
  resp.op = "logout" =>
    \A t \in SignedTokens :
      (now < t.exp /\ t.sub # None /\ t.sub[1] \in UserIdsOf(users)) =>
        /\ t.typ = "access" => Gate(AsCookie(t)) = [ok |-> TRUE, user_id |-> t.sub, detail |-> ""]
        /\ t.typ = "refresh" => RefreshResult(AsRefreshCookie(t)).status = 200

C11_LogoutStateless ==
  [](C11_OnlyClearsCookies /\ C11_StillAccepted) /\ [][C11_LogoutChangesNothing]_vars

\* A logout has just been answered while a user exists whose access and
\* refresh tokens, as a login before this moment issued them, are unexpired
\* and still accepted.
C11_Witness ==
  /\ resp = LogoutResult
  /\ todos # {}
  /\ \E u \in users, a, r \in Expiries :
       /\ now < a /\ a <= now + AccessTTL
       /\ now < r /\ r <= now + RefreshTTL
       /\ Gate(AsCookie(Jwt(Some(u.id), "access", a, TRUE))).ok
       /\ RefreshResult(AsRefreshCookie(Jwt(Some(u.id), "refresh", r, TRUE))).status = 200

(* C12: a registration with the email of an existing user answers 400 and   *)
(* leaves the user collection as it was; one with a fresh email answers 201 *)
(* and adds exactly one user, with that email; and no two users ever have   *)
(* the same email.                                                           *)
RegisterInputs == [email : Emails, password : Passwords]

C12_RegisterChecksEmail ==
  \A user_data \in RegisterInputs :
    LET r == RegisterResult(user_data)
    IN IF \E u \in users : u.email = user_data.email
       THEN r.resp.status = 400 /\ r.resp.body.user = None /\ r.users = users
       ELSE /\ r.resp.status = 201
            /\ users \subseteq r.users
            /\ Cardinality(r.users \ users) = 1
            /\ \A u \in r.users \ users :
                 u.email = user_data.email /\ r.resp.body.user = Some([id |-> u.id, email |-> u.email])

C12_EmailsUnique ==
  \A u, v \in users : u.email = v.email => u = v

C12_RegisterStep ==
  (resp'.op = "register" /\ resp' # resp) =>
    IF resp'.status = 201
    THEN /\ Cardinality(users') = Cardinality(users) + 1 /\ users \subseteq users'
         /\ \A u \in users' \ users : \A v \in users : v.email # u.email
    ELSE resp'.status = 400 /\ users' = users

C12_EmailUnique ==
  [](C12_RegisterChecksEmail /\ C12_EmailsUnique) /\ [][C12_RegisterStep]_vars

\* A registration has just been refused for the email of one of two users.
C12_Witness ==
  /\ resp.op = "register" /\ resp.status = 400
  /\ resp.detail = "Email already registered"
  /\ Cardinality(users) = 2

(* C14: the owner's DELETE of a stored todo answers 204 with an empty body  *)
(* and removes that todo and no other; in the state it leaves, the same     *)
(* DELETE by the same user answers 404 "Todo not found" and changes nothing. *)
C14_FirstDelete ==
  \A auth \in OkOutcomes :
    \A t \in todos :
      t.userId = auth.user_id[1] =>
        LET r == DeleteTodoResult(auth, t.id)
        IN r.resp.status = 204 /\ r.resp.body = NoBody /\ r.todos = todos \ {t}

C14_SecondDelete ==
  (resp.op = "delete" /\ resp.status = 204) =>
    \A auth \in OkOutcomes :
      auth.user_id = resp.sub =>
        LET r == DeleteTodoResult(auth, resp.tid[1])
        IN r.resp.status = 404 /\ r.resp.detail = "Todo not found" /\ r.todos = todos

C14_DeleteStep ==
  (resp'.op = "delete" /\ resp' # resp) =>
    IF resp'.status = 204
    THEN \E t \in todos :
           /\ resp'.tid = Some(t.id) /\ resp'.sub = Some(t.userId)
           /\ todos' = todos \ {t}
    ELSE todos' = todos

C14_DeleteTwice ==
  [](C14_FirstDelete /\ C14_SecondDelete) /\ [][C14_DeleteStep]_vars

\* The owner has just deleted one of their two todos: the other one is
\* still stored, and the same DELETE again is answered 404.
C14_Witness ==
  /\ resp.op = "delete" /\ resp.status = 204
  /\ nextTodoId = 3
  /\ \E t \in todos : todos = {t} /\ Some(t.userId) = resp.sub /\ Some(t.id) # resp.tid
  /\ \E auth \in OkOutcomes :
       /\ auth.user_id = resp.sub
       /\ DeleteTodoResult(auth, resp.tid[1]).resp.status = 404

(* C13 as stated: when the todo of an update or a delete is gone by the     *)
(* time the request makes its second persistence call, the request is       *)
(* answered 404: never 500, never 200 or 204.                                *)
C13_GoneAtWrite(slot) ==
  /\ pending[slot] # None /\ pending'[slot] = None
  /\ pending[slot][1].op \in {"update", "delete"}
  /\ pending[slot][1].todo_id \notin TodoIdsOf(todos)

C13_RaceIsNotFound ==
  [][\A slot \in 1..MaxInFlight : C13_GoneAtWrite(slot) => resp'.status = 404]_vars

(* C15: a successful update changes only what the request gives: a field    *)
(* whose key is absent keeps its stored value, whatever that value is; a    *)
(* field given a value takes it; id, userId and createdAt stay; every other *)
(* todo stays; the response is the todo as stored afterwards; and a body    *)
(* with no key returns the todo as it was.                                   *)
Stored(S, id) == CHOOSE t \in S : t.id = id

C15_FieldKept(json, f, old, new) ==
  IF json[f] = JsonAbsent THEN new[f] = old[f]
  ELSE IF json[f] = JsonNull THEN TRUE
  ELSE new[f] = IF f = "dueDate" THEN Some(json[f][1][1]) ELSE json[f][1][1]

\* update_data holds a field exactly when the body gives it a value, with
\* that value.
C15_UpdateData ==
  \A json \in JsonUpdateBodies :
    LET update_data == UpdateData(TodoUpdate(json))
    IN /\ DOMAIN update_data = {f \in TodoFields : json[f] \notin {JsonAbsent, JsonNull}}
       /\ \A f \in DOMAIN update_data :
            update_data[f] = IF f = "dueDate" THEN Some(json[f][1][1]) ELSE json[f][1][1]

\* The bodies applied to the stored todos: one value or none beside absent
\* keys or nulls, and a value for every field.
C15_Bodies ==
  JsonUpdateRequests
    \cup [title : {JsonValue(v) : v \in Titles}, completed : {JsonValue(v) : v \in BOOLEAN},
          dueDate : {JsonValue(v) : v \in DueDates}, pinned : {JsonValue(v) : v \in BOOLEAN}]

C15_UpdateFrame ==
  \A auth \in OkOutcomes :
    \A old \in {t \in todos : t.userId = auth.user_id[1]} :
      \A json \in C15_Bodies :
        LET r == UpdateTodoResult(auth, old.id, TodoUpdate(json))
            new == Stored(r.todos, old.id)
        IN /\ r.resp.status = 200
           /\ r.resp.body.todos = <<new>>
           /\ Cardinality(r.todos) = Cardinality(todos)
           /\ r.todos \ {new} = todos \ {old}
           /\ new.id = old.id /\ new.userId = old.userId /\ new.createdAt = old.createdAt
           /\ \A f \in TodoFields : C15_FieldKept(json, f, old, new)
           /\ json = AllAbsent => new = old /\ r.todos = todos

C15_UpdateStep ==
  (resp'.op = "update" /\ resp'.status = 200 /\ resp' # resp) =>
    \E old \in todos :
      LET new == Stored(todos', old.id)
      IN /\ resp'.tid = Some(old.id)
         /\ resp'.body.todos = <<new>>
         /\ todos' \ {new} = todos \ {old}
         /\ new.id = old.id /\ new.userId = old.userId /\ new.createdAt = old.createdAt

C15_UpdateChangesOnlyGiven ==
  [](C15_UpdateData /\ C15_UpdateFrame) /\ [][C15_UpdateStep]_vars

\* An update has just answered a todo none of whose fields has its default,
\* beside another stored todo; the same todo comes back from an update
\* that gives no field.
C15_Witness ==
  /\ resp.op = "update" /\ resp.status = 200
  /\ Cardinality(todos) = 2
  /\ \E t \in todos :
       /\ resp.body.todos = <<t>>
       /\ t.completed /\ t.pinned /\ t.dueDate # None
       /\ \E auth \in OkOutcomes :
            UpdateTodoResult(auth, t.id, TodoUpdate(AllAbsent)).resp.body.todos = <<t>>

(* C16: a signed token whose expiry is not in the future fails              *)
(* verification: as an access token the gate answers the generic 401, as a  *)
(* refresh token /auth/refresh answers 401 and issues nothing; and a step   *)
(* of the clock changes nothing stored, yet every token of an existing user *)
(* whose expiry the clock reaches was accepted before the step and is       *)
(* refused after it.                                                         *)
C16_ExpiredFails ==
  \A t \in SignedTokens :
    t.exp <= now =>
      /\ verify_token(t, t.typ) = None
      /\ t.typ = "access" =>
           \A request \in {AsCookie(t)} \cup AsBearer(t) :
             /\ Gate(request) = [ok |-> FALSE, user_id |-> None, detail |-> "Could not validate credentials"]
             /\ Unauthorized("list", Gate(request).detail).status = 401
      /\ t.typ = "refresh" =>
           RefreshResult(AsRefreshCookie(t)) = HTTPException("refresh", 401, "Invalid or expired refresh token")

C16_ClockStep ==
  now' # now =>
    /\ UNCHANGED <<users, todos, nextUserId, nextTodoId>>
    /\ \A t \in SignedTokens :
         (now < t.exp /\ t.exp <= now' /\ t.sub # None /\ t.sub[1] \in UserIdsOf(users)) =>
           /\ t.typ = "access" => Gate(AsCookie(t)).ok /\ ~Gate(AsCookie(t))'.ok
           /\ t.typ = "refresh" =>
                /\ RefreshResult(AsRefreshCookie(t)).status = 200
                /\ RefreshResult(AsRefreshCookie(t))'.status = 401

C16_ExpiryRefuses == [](C16_ExpiredFails) /\ [][C16_ClockStep]_vars

\* The clock has passed the expiry of the access token a login at time 0
\* issued to a user who still exists: a todo request has just been refused
\* with the generic 401, and that token is refused.
C16_Witness ==
  /\ now >= AccessTTL
  /\ resp.op = "list" /\ resp.status = 401 /\ resp.detail = "Could not validate credentials"
  /\ \E u \in users :
       /\ LoginResult([email |-> u.email, password |-> "pw1"]).status = 200
       /\ ~Gate(AsCookie(Jwt(Some(u.id), "access", AccessTTL, TRUE))).ok
       /\ RefreshResult(AsRefreshCookie(Jwt(Some(u.id), "refresh", now, TRUE))).status = 401

(* C17: tokens are issued only on proven credentials. A login issues        *)
(* tokens exactly when its email is a user's and its password verifies      *)
(* against that user's stored hash: then one access and one refresh token,  *)
(* both with that user's id as subject, the same two in the cookies and in  *)
(* the body. A refresh issues exactly when it presents a refresh token that *)
(* verifies and whose subject is a user: then one access token with that    *)
(* subject, and no refresh token. A step of register, logout or a todo      *)
(* route issues nothing; and every step whose response sets a token cookie  *)
(* or carries an access token is such a login or such a refresh.            *)
IssuedIn(r) ==
  {c.value[1] : c \in {k \in r.cookies : k.value # None}}
    \cup (IF r.body.access_token = None THEN {} ELSE {r.body.access_token[1]})
NoToken(r) ==
  /\ IssuedIn(r) = {}
  /\ r.body.refresh_token = None
  /\ \A c \in r.cookies : c.value = None

Proven(x) == \E u \in users : u.email = x.email /\ verify_password(x.password, u.password)
Refreshable(request) ==
  LET presented == request.cookies.refresh_token
  IN /\ presented # None
     /\ verify_token(presented[1], "refresh") # None
     /\ presented[1].sub # None /\ presented[1].sub[1] \in UserIdsOf(users)

C17_LoginIssues ==
  \A x \in LoginInputs :
    LET r == LoginResult(x)
    IN IF Proven(x)
       THEN \E u \in users :
              LET access == Jwt(Some(u.id), "access", now + AccessTTL, TRUE)
                  refresh == Jwt(Some(u.id), "refresh", now + RefreshTTL, TRUE)
              IN /\ u.email = x.email
                 /\ r.status = 200
                 /\ r.body.access_token = Some(access) /\ r.body.refresh_token = Some(refresh)
                 /\ r.cookies = {SetCookie("access_token", access, AccessTTL),
                                 SetCookie("refresh_token", refresh, RefreshTTL)}
       ELSE r.status = 401 /\ NoToken(r)

C17_RefreshIssues ==
  \A request \in RefreshRequests :
    LET r == RefreshResult(request)
    IN IF Refreshable(request)
       THEN LET access == Jwt(request.cookies.refresh_token[1].sub, "access", now + AccessTTL, TRUE)
            IN /\ r.status = 200
               /\ IssuedIn(r) = {access}
               /\ r.cookies = {SetCookie("access_token", access, AccessTTL)}
               /\ r.body.refresh_token = request.cookies.refresh_token
       ELSE r.status = 401 /\ NoToken(r)

C17_OthersIssueNothing ==
  (resp' # resp /\ resp'.op \notin {"login", "refresh"}) => NoToken(resp')

C17_IssuingStep ==
  (resp' # resp /\ ~NoToken(resp')) =>
    \/ \E x \in LoginInputs : Proven(x) /\ resp' = LoginResult(x)
    \/ \E request \in RefreshRequests : Refreshable(request) /\ resp' = RefreshResult(request)

C17_IssuedOnProof ==
  [](C17_LoginIssues /\ C17_RefreshIssues) /\ [][C17_OthersIssueNothing /\ C17_IssuingStep]_vars

\* A login has just issued its two tokens to one of two users, in a state
\* where a wrong password and an unknown refresh subject are refused.
C17_Witness ==
  /\ resp.op = "login" /\ resp.status = 200
  /\ Cardinality(users) = 2
  /\ \E x \in LoginInputs : Proven(x) /\ resp = LoginResult(x)
  /\ \E y \in LoginInputs : ~Proven(y) /\ NoToken(LoginResult(y))
  /\ \E c \in resp.cookies : c.key = "refresh_token" /\ c.value = resp.body.refresh_token

(* C18: the credential is taken from the cookie first. With a non-empty     *)
(* access_token cookie the token is the cookie's value whatever the         *)
(* Authorization header is (absent, malformed, another scheme, a Bearer     *)
(* header with another token). Without one, a non-empty header must have    *)
(* exactly two parts, the first being "bearer" in any case, and the token   *)
(* is the second part; any other header fails; and with no cookie and no    *)
(* header the request fails with the generic message. The gate therefore    *)
(* gives a request with a cookie the outcome of the cookie alone: a valid   *)
(* cookie is accepted beside a malformed or forged header, a forged cookie  *)
(* is refused beside a valid header, and a valid header is accepted beside  *)
(* no cookie or an empty one.                                               *)
CookieBesideHeader ==
  {Request(Some(c), None, Some(h)) : c \in ForgedTokens, h \in HeaderValues}
    \cup {Request(Some(c), None, Some(Header(2, "Bearer", t))) : c \in SignedTokens, t \in ForgedTokens}

C18_Extraction ==
  \A request \in AccessRequests \cup CookieBesideHeader :
    LET extracted == get_token_from_cookie_or_header(request)
        cookie == request.cookies.access_token
        header == request.headers.Authorization
    IN IF cookie # None /\ cookie[1] # EmptyStr
       THEN extracted = [ok |-> TRUE, token |-> cookie[1], detail |-> ""]
       ELSE IF header = None \/ header[1].n = 0
       THEN extracted = [ok |-> FALSE, token |-> EmptyStr, detail |-> "Could not validate credentials"]
       ELSE IF header[1].n = 2 /\ header[1].scheme \in {"Bearer", "bearer"}
       THEN extracted = [ok |-> TRUE, token |-> header[1].cred, detail |-> ""]
       ELSE ~extracted.ok

C18_GateReadsCookie ==
  \A t \in {x \in SignedTokens : x.typ = "access" /\ now < x.exp
                                    /\ x.sub # None /\ x.sub[1] \in UserIdsOf(users)} :
    LET f == Jwt(t.sub, "access", MaxTime + RefreshTTL, FALSE)
    IN /\ Gate(AsCookie(t)).ok /\ ~Gate(AsCookie(f)).ok
       /\ \A h \in MalformedHeaders \cup {Header(2, "Bearer", f)} :
            Gate(Request(Some(t), None, Some(h))) = Gate(AsCookie(t))
       /\ Gate(Request(Some(f), None, Some(Header(2, "Bearer", t)))) = Gate(AsCookie(f))
       /\ \A request \in AsBearer(t) :
            /\ Gate(request) = Gate(AsCookie(t))
            /\ Gate(Request(Some(EmptyStr), None, request.headers.Authorization)) = Gate(AsCookie(t))

C18_CookieFirst == C18_Extraction /\ C18_GateReadsCookie

\* A list has just been answered to a user whose access token passes the
\* gate as a cookie beside a malformed header and beside a Bearer header
\* carrying a forged token, and passes as a Bearer header beside an empty
\* cookie.
C18_Witness ==
  /\ resp.op = "list" /\ resp.status = 200
  /\ \E t \in SignedTokens, f \in ForgedTokens :
       /\ t.sub = resp.sub
       /\ Gate(Request(Some(t), None, Some(Header(2, "Basic", EmptyStr)))).ok
       /\ Gate(Request(Some(t), None, Some(Header(2, "Bearer", f)))).ok
       /\ ~Gate(Request(None, None, Some(Header(2, "Bearer", f)))).ok
       /\ Gate(Request(Some(EmptyStr), None, Some(Header(2, "bearer", t)))).ok

(* C19: when two register requests for one email have both passed the      *)
(* existence check, the one whose create comes second, the email then       *)
(* being stored, is answered 400 "Email already registered" and adds no     *)
(* user. The code answers it with an unhandled error: this is violated.     *)
C19_LostCreate(slot) ==
  /\ pending[slot] # None
  /\ pending[slot][1].op = "register"
  /\ pending'[slot] = None
  /\ user_find_unique_by_email(pending[slot][1].user_data.email) # None

C19_LoserIsEmailTaken ==
  [][\A slot \in 1..MaxInFlight :
       C19_LostCreate(slot) =>
         /\ resp'.status = 400
         /\ resp'.detail = "Email already registered"
         /\ users' = users]_vars

(* C20: an update field carrying null is treated exactly like a field that  *)
(* is omitted: the update answers and stores what the same body without     *)
(* its null keys does, and a field that is null or omitted keeps its        *)
(* stored value. So a due date, once set, is never unset: in every step, a  *)
(* stored todo with a due date that is still stored afterwards has a due    *)
(* date (which an update may have replaced).                                *)
Omitted(json) == [f \in TodoFields |-> IF json[f] = JsonNull THEN JsonAbsent ELSE json[f]]

C20_NullReadsAsOmitted ==
  \A json \in DueDateUpdateBodies :
    /\ TodoUpdate(json) = TodoUpdate(Omitted(json))
    /\ UpdateData(TodoUpdate(json)) = UpdateData(TodoUpdate(Omitted(json)))
    /\ DOMAIN UpdateData(TodoUpdate(json)) = {f \in TodoFields : json[f] \notin {JsonNull, JsonAbsent}}

C20_NullAsOmitted ==
  \A auth \in OkOutcomes, todo_id \in TodoIds, json \in DueDateUpdateRequests :
    LET r == UpdateTodoResult(auth, todo_id, TodoUpdate(json))
    IN /\ r = UpdateTodoResult(auth, todo_id, TodoUpdate(Omitted(json)))
       /\ r.resp.status = 200 =>
            \A f \in TodoFields :
              json[f] \in {JsonNull, JsonAbsent} =>
                Stored(r.todos, todo_id)[f] = Stored(todos, todo_id)[f]

C20_DueDateStays ==
  \A old \in todos, new \in todos' :
    (new.id = old.id /\ old.dueDate # None) => new.dueDate # None

C20_DueDateNeverCleared ==
  [](C20_NullReadsAsOmitted /\ C20_NullAsOmitted) /\ [][C20_DueDateStays]_vars

\* An update has just answered a todo that has a due date; an update of it
\* whose dueDate is null, beside nulls or beside a new title, leaves the due
\* date as it is, and one carrying another timestamp replaces it.
C20_Witness ==
  /\ resp.op = "update" /\ resp.status = 200
  /\ \E t \in todos, auth \in OkOutcomes :
       /\ resp.body.todos = <<t>>
       /\ t.dueDate # None
       /\ UpdateTodoResult(auth, t.id, TodoUpdate(AllNull)).todos = todos
       /\ \E v \in Titles :
            /\ v # t.title
            /\ Stored(UpdateTodoResult(auth, t.id,
                 TodoUpdate([AllAbsent EXCEPT !.dueDate = JsonNull, !.title = JsonValue(v)])).todos,
                 t.id) = [t EXCEPT !.title = v]
       /\ \E d \in UpdateDueDates :
            /\ Some(d) # t.dueDate
            /\ Stored(UpdateTodoResult(auth, t.id,
                 TodoUpdate([AllAbsent EXCEPT !.dueDate = JsonValue(d)])).todos, t.id).dueDate = Some(d)

(* C21: user records are immutable and permanent. A register request adds   *)
(* exactly one user when it answers 201 and none otherwise, and never       *)
(* touches a stored user; the user it adds has a fresh id, the submitted    *)
(* email, and as password the hasher's digest of the submitted password,    *)
(* which verifies against it; the response names the user's id and email    *)
(* and has no password field. Every stored password is a digest. In every   *)
(* step of register, login, refresh, logout, the todo routes and the clock  *)
(* every stored user stays as it is, no second record takes a stored id,    *)
(* and the set of users changes only by the one user of a 201 register.     *)
C21_RegisterAddsDigest ==
  \A user_data \in RegisterInputs :
    LET r == RegisterResult(user_data)
    IN /\ users \subseteq r.users
       /\ r.resp.status \in {201, 400}
       /\ r.resp.status = 400 => r.users = users /\ r.resp.body.user = None
       /\ r.resp.status = 201 =>
            /\ Cardinality(r.users \ users) = 1
            /\ \A u \in r.users \ users :
                 /\ u.id \notin UserIdsOf(users)
                 /\ u.email = user_data.email
                 /\ u.password = hash_password(user_data.password)
                 /\ verify_password(user_data.password, u.password)
                 /\ r.resp.body.user = Some([id |-> u.id, email |-> u.email])
                 /\ "password" \notin DOMAIN r.resp.body.user[1]

C21_StoredAreDigests ==
  /\ \A u \in users : \E p \in Passwords : u.password = hash_password(p)
  /\ resp.body.user # None => "password" \notin DOMAIN resp.body.user[1]

C21_UsersStep ==
  /\ users \subseteq users'
  /\ \A u \in users, v \in users' : v.id = u.id => v = u
  /\ users' # users =>
       /\ resp'.op = "register" /\ resp'.status = 201
       /\ Cardinality(users' \ users) = 1

C21_UsersImmutable ==
  [](C21_RegisterAddsDigest /\ C21_StoredAreDigests) /\ [][C21_UsersStep]_vars

\* A second user has just been registered, after the clock moved and while
\* a todo is stored: the first user is as it was registered, and a register
\* for its email with another password would leave the users as they are.
C21_Witness ==
  /\ resp.op = "register" /\ resp.status = 201
  /\ Cardinality(users) = 2
  /\ todos # {} /\ now > 0
  /\ \E u \in users :
       /\ u.id = 1 /\ u.password = hash_password("pw1")
       /\ resp.body.user # Some([id |-> u.id, email |-> u.email])
       /\ RegisterResult([email |-> u.email, password |-> "pw2"]).users = users
=============================================================================
